---- MODULE Spec2Model ----
(***************************************************************************)
(* The appointment calendar of the clinic front end                        *)
(* (src/client/app/appointments/page.tsx).  The file holds two variants of  *)
(* the Appointments component: the "simple" month/list page (lines 1-941)   *)
(* and the "full" day/week/month/year grid page (lines 943-2819).           *)
(*                                                                         *)
(* A JavaScript Date is modelled by its local calendar day, an integer     *)
(* counting days from 1970-01-01; an appointment's start also carries its   *)
(* local minute of the day.  The clock (new Date()) is held fixed for the   *)
(* life of the page: `today`.                                               *)
(***************************************************************************)
EXTENDS Integers, Sequences, FiniteSets, TLC

VARIABLES
    variant,         \* which of the two components is mounted
    today,           \* the clock's calendar day, fixed
    appointments,    \* useState<any[]>([])
    loading,         \* useState(true)
    error,           \* useState<string | null>(null)
    searchTerm,      \* useState('')
    selectedDate,    \* useState<Date>(new Date())
    currentMonth,    \* useState<Date>(new Date()), the anchor date
    viewMode,        \* useState<ViewMode>
    rightPanelMode,  \* useState<RightPanelMode>('today')
    fetchPc,         \* where the mount effect's fetchAppointments() stands
    fetchCount,      \* calls of api.get('/api/appointments') made so far
    lastEvent,       \* the event handled last: [type, date]
    budget,          \* clicks the model still offers the user
    booking          \* the Book Appointment page (src/unnamed/part_000)

vars == <<variant, today, appointments, loading, error, searchTerm, selectedDate,
          currentMonth, viewMode, rightPanelMode, fetchPc, fetchCount, lastEvent, budget,
          booking>>

(***************************************************************************)
(* Bounds of the model.                                                    *)
(***************************************************************************)
MaxEvents == 3
CalendarYears == 2

(***************************************************************************)
(* JavaScript Date arithmetic on calendar days.                            *)
(***************************************************************************)

\* Day number of the civil date (y, m, d), m in 1..12, d any integer.
DaysFromCivil(y, m, d) ==
    LET yy  == IF m <= 2 THEN y - 1 ELSE y
        era == yy \div 400
        yoe == yy - era * 400
        mp  == IF m > 2 THEN m - 3 ELSE m + 9
        doy == (153 * mp + 2) \div 5 + d - 1
        doe == yoe * 365 + yoe \div 4 - yoe \div 100 + doy
    IN  era * 146097 + doe - 719468

\* The civil date of day number z: [year, month (0..11, as getMonth), date].
CivilFromDays(z) ==
    LET zz  == z + 719468
        era == zz \div 146097
        doe == zz - era * 146097
        yoe == (doe - doe \div 1460 + doe \div 36524 - doe \div 146096) \div 365
        doy == doe - (365 * yoe + yoe \div 4 - yoe \div 100)
        mp  == (5 * doy + 2) \div 153
        d   == doy - (153 * mp + 2) \div 5 + 1
        m   == IF mp < 10 THEN mp + 3 ELSE mp - 9
    IN  [year  |-> yoe + era * 400 + (IF m <= 2 THEN 1 ELSE 0),
         month |-> m - 1,
         date  |-> d]

\* new Date(year, monthIndex, day): month and day overflow are carried.
MakeDate(year, monthIndex, day) ==
    DaysFromCivil(year + monthIndex \div 12, (monthIndex % 12) + 1, 1) + day - 1

\* CivilFromDays, tabulated once for the days of 2018 to 2030.
CivilTable == [z \in DaysFromCivil(2018, 1, 1) .. DaysFromCivil(2031, 1, 1) |-> CivilFromDays(z)]
Civil(z) == IF z \in DOMAIN CivilTable THEN CivilTable[z] ELSE CivilFromDays(z)

GetFullYear(z) == Civil(z).year
GetMonth(z) == Civil(z).month
GetDate(z) == Civil(z).date
\* getDay(): 0 = Sunday .. 6 = Saturday (1970-01-01 was a Thursday).
GetDay(z) == (z + 4) % 7

\* date.setDate(v), date.setMonth(v), date.setFullYear(v) as the new value.
SetDate(z, v) == MakeDate(GetFullYear(z), GetMonth(z), v)
SetMonth(z, v) == MakeDate(GetFullYear(z), v, GetDate(z))
SetFullYear(z, v) == MakeDate(v, GetMonth(z), GetDate(z))

\* Number of days of the month of (year, monthIndex): new Date(y, m + 1, 0).getDate().
DaysInMonth(year, monthIndex) == GetDate(MakeDate(year, monthIndex + 1, 0))

(***************************************************************************)
(* Pure helpers of the component.                                          *)
(***************************************************************************)
ViewModes == {"day", "week", "month", "year"}
RightPanelModes == {"today", "selected"}
Variants == {"simple", "full"}

\* The placeholder pushed for an empty grid cell (null).
NullCell == -1

\* A faulty getCalendarDays whose day loop stops one short (day < daysInMonth).
getCalendarDays_dropsLastDay(anchor) ==
    LET year == GetFullYear(anchor)
        month == GetMonth(anchor)
        daysInMonth == GetDate(MakeDate(year, month + 1, 0)) - 1
        startingDayOfWeek == GetDay(MakeDate(year, month, 1))
    IN  [i \in 1..(startingDayOfWeek + daysInMonth) |->
            IF i <= startingDayOfWeek
            THEN NullCell
            ELSE MakeDate(year, month, i - startingDayOfWeek)]

\* A faulty getCalendarDays that takes the length of February from the 28th.
getCalendarDays_noLeapDay(anchor) ==
    LET year == GetFullYear(anchor)
        month == GetMonth(anchor)
        lastDay == MakeDate(year, month + 1, 0)
        daysInMonth == IF month = 1 THEN 28 ELSE GetDate(lastDay)
        startingDayOfWeek == GetDay(MakeDate(year, month, 1))
    IN  [i \in 1..(startingDayOfWeek + daysInMonth) |->
            IF i <= startingDayOfWeek
            THEN NullCell
            ELSE MakeDate(year, month, i - startingDayOfWeek)]

\* getCalendarDays(): startingDayOfWeek nulls, then every day of the month.
getCalendarDays(anchor) ==
    LET year == GetFullYear(anchor)
        month == GetMonth(anchor)
        firstDay == MakeDate(year, month, 1)
        lastDay == MakeDate(year, month + 1, 0)
        daysInMonth == GetDate(lastDay)
        startingDayOfWeek == GetDay(firstDay)
    IN  [i \in 1..(startingDayOfWeek + daysInMonth) |->
            IF i <= startingDayOfWeek
            THEN NullCell
            ELSE MakeDate(year, month, i - startingDayOfWeek)]

\* A faulty getWeekDates without the Sunday case of the roll back.
getWeekDates_noSundayCase(date) ==
    LET day == GetDay(date)
        diff == GetDate(date) - day + 1
        monday == SetDate(date, diff)
    IN  [k \in 1..7 |-> SetDate(monday, GetDate(monday) + (k - 1))]

\* getWeekDates(date): Monday first.
getWeekDates(date) ==
    LET day == GetDay(date)
        diff == GetDate(date) - day + (IF day = 0 THEN -6 ELSE 1)
        monday == SetDate(date, diff)
    IN  [k \in 1..7 |-> SetDate(monday, GetDate(monday) + (k - 1))]

\* rightPanelDate = rightPanelMode === 'today' ? new Date() : selectedDate
rightPanelDateOf(mode, sel, now) == IF mode = "today" THEN now ELSE sel
rightPanelDate == rightPanelDateOf(rightPanelMode, selectedDate, today)

(***************************************************************************)
(* The view state and its handlers, as functions of the view record.       *)
(***************************************************************************)
View == [currentMonth |-> currentMonth, selectedDate |-> selectedDate,
         viewMode |-> viewMode, rightPanelMode |-> rightPanelMode]

\* handlePrevious / handleNext of the simple variant: step currentMonth.
handleStepSimple(v, dir) ==
    CASE v.viewMode = "day" ->
            [v EXCEPT !.currentMonth = SetDate(@, GetDate(@) + dir)]
      [] v.viewMode = "week" ->
            [v EXCEPT !.currentMonth = SetDate(@, GetDate(@) + 7 * dir)]
      [] v.viewMode = "month" ->
            [v EXCEPT !.currentMonth = SetMonth(@, GetMonth(@) + dir)]
      [] v.viewMode = "year" ->
            [v EXCEPT !.currentMonth = SetFullYear(@, GetFullYear(@) + dir)]

\* handlePrevious / handleNext of the full variant: day and week step
\* selectedDate, month and year step currentMonth.
handleStepFull(v, dir) ==
    CASE v.viewMode = "day" ->
            [v EXCEPT !.selectedDate = SetDate(@, GetDate(@) + dir),
                      !.rightPanelMode = "selected"]
      [] v.viewMode = "week" ->
            [v EXCEPT !.selectedDate = SetDate(@, GetDate(@) + 7 * dir),
                      !.rightPanelMode = "selected"]
      [] v.viewMode = "month" ->
            [v EXCEPT !.currentMonth = SetMonth(@, GetMonth(@) + dir)]
      [] v.viewMode = "year" ->
            [v EXCEPT !.currentMonth = SetFullYear(@, GetFullYear(@) + dir)]

handlePrevious(var, v) ==
    IF var = "simple" THEN handleStepSimple(v, -1) ELSE handleStepFull(v, -1)

handleNext(var, v) ==
    IF var = "simple" THEN handleStepSimple(v, 1) ELSE handleStepFull(v, 1)

\* A faulty handleToday that forgets setSelectedDate(today).
handleToday_keepsSelected(v, now) ==
    [v EXCEPT !.currentMonth = now, !.rightPanelMode = "today"]

\* handleToday()
handleToday(v, now) ==
    [v EXCEPT !.currentMonth = now, !.selectedDate = now, !.rightPanelMode = "today"]

\* goToPreviousMonth() / goToNextMonth()
goToPreviousMonth(v) ==
    [v EXCEPT !.currentMonth = MakeDate(GetFullYear(@), GetMonth(@) - 1, 1)]

\* A faulty goToNextMonth that keeps the anchor's day of month (setMonth).
goToNextMonth_keepsDay(v) ==
    [v EXCEPT !.currentMonth = SetMonth(@, GetMonth(@) + 1)]

goToNextMonth(v) ==
    [v EXCEPT !.currentMonth = MakeDate(GetFullYear(@), GetMonth(@) + 1, 1)]

\* A faulty handleViewModeClose that also moves selectedDate to the anchor.
handleViewModeClose_resetsSelected(v, mode) ==
    IF mode # "none"
    THEN [v EXCEPT !.viewMode = mode, !.selectedDate = v.currentMonth]
    ELSE v

\* handleViewModeClose(mode?): "none" stands for the menu closing without a choice.
handleViewModeClose(v, mode) ==
    IF mode # "none" THEN [v EXCEPT !.viewMode = mode] ELSE v

\* The Tomorrow and Next Week entries of the date menu.
pickTomorrow(v, now) ==
    LET tomorrow == SetDate(now, GetDate(now) + 1)
    IN  [v EXCEPT !.currentMonth = tomorrow, !.selectedDate = tomorrow,
                  !.rightPanelMode = "selected"]

pickNextWeek(v, now) ==
    LET nextWeek == SetDate(now, GetDate(now) + 7)
    IN  [v EXCEPT !.currentMonth = nextWeek, !.selectedDate = nextWeek,
                  !.rightPanelMode = "selected"]

\* A faulty cell click that forgets setRightPanelMode('selected').
calendarCellClick_keepsPanel(v, date) ==
    [v EXCEPT !.selectedDate = date]

\* onClick of a calendar day cell.
calendarCellClick(v, date) ==
    [v EXCEPT !.selectedDate = date, !.rightPanelMode = "selected"]

\* onClick of a week-view appointment block in the column of `date`.
weekBlockClick(v, date) ==
    [v EXCEPT !.selectedDate = date, !.rightPanelMode = "selected", !.viewMode = "day"]

\* A faulty month card that forgets setSelectedDate(monthDate).
yearCardClick_keepsSelected(v, i) ==
    LET monthDate == MakeDate(GetFullYear(v.currentMonth), i, 1)
    IN  [v EXCEPT !.currentMonth = monthDate, !.viewMode = "month"]

\* onClick of the card of month i (0..11) in year view.
yearCardClick(v, i) ==
    LET monthDate == MakeDate(GetFullYear(v.currentMonth), i, 1)
    IN  [v EXCEPT !.currentMonth = monthDate, !.selectedDate = monthDate,
                  !.viewMode = "month"]

(***************************************************************************)
(* Appointments.  An appointment is a record                               *)
(*   [id, appointmentDate, duration, patientName, patientEmail, notes].     *)
(* appointmentDate stands for the ISO string of the record: kind "absent"   *)
(* (the field is missing or empty), "malformed" (a string Date cannot       *)
(* parse) or "valid" with the local day and minute of the day it denotes.   *)
(* duration 0 stands for a missing duration (both are falsy).  A text field *)
(* is a tuple of characters, the empty tuple standing for a missing field.  *)
(***************************************************************************)

\* new Date(appointment.appointmentDate): an Invalid Date unless the string parses.
NewDate(s) ==
    IF s.kind = "valid"
    THEN [valid |-> TRUE, day |-> s.day, minute |-> s.minute]
    ELSE [valid |-> FALSE, day |-> 0, minute |-> 0]

\* !appointment.appointmentDate
Falsy(s) == s.kind = "absent"

\* The date test of getAppointmentsForDate: getDate, getMonth and getFullYear
\* agree (each is NaN on an Invalid Date, and NaN === x is false).
sameCalendarDay(d, date) ==
    /\ d.valid
    /\ GetDate(d.day) = GetDate(date)
    /\ GetMonth(d.day) = GetMonth(date)
    /\ GetFullYear(d.day) = GetFullYear(date)

\* A faulty getAppointmentsForDate whose guard keeps the appointments without a
\* date (return true for return false).
getAppointmentsForDate_keepsUndated(appts, date) ==
    SelectSeq(appts, LAMBDA a :
        IF Falsy(a.appointmentDate) THEN TRUE
        ELSE sameCalendarDay(NewDate(a.appointmentDate), date))

\* getAppointmentsForDate(date)
getAppointmentsForDate(appts, date) ==
    SelectSeq(appts, LAMBDA a :
        IF Falsy(a.appointmentDate) THEN FALSE
        ELSE sameCalendarDay(NewDate(a.appointmentDate), date))

\* hasAppointments(date)
hasAppointments(appts, date) == Len(getAppointmentsForDate(appts, date)) > 0

\* string.toLowerCase() on the model alphabet.
ToLowerChar(c) ==
    CASE c = "S" -> "s"
      [] c = "D" -> "d"
      [] OTHER -> c
toLowerCase(str) == [i \in 1..Len(str) |-> ToLowerChar(str[i])]

\* string.includes(sub)
includes(str, sub) ==
    \E k \in 0..(Len(str) - Len(sub)) :
        \A i \in 1..Len(sub) : str[k + i] = sub[i]

\* field?.toLowerCase().includes(searchLower): undefined on a missing field.
fieldMatches(field, searchLower) ==
    field # <<>> /\ includes(toLowerCase(field), searchLower)

\* A faulty search filter that looks at the patient's name only.
matchesSearch_nameOnly(a, term) ==
    IF term = <<>> THEN TRUE
    ELSE fieldMatches(a.patientName, toLowerCase(term))

\* The search filter of rightPanelAppointments.
matchesSearch(a, term) ==
    IF term = <<>> THEN TRUE
    ELSE LET searchLower == toLowerCase(term)
         IN  \/ fieldMatches(a.patientName, searchLower)
             \/ fieldMatches(a.patientEmail, searchLower)
             \/ fieldMatches(a.notes, searchLower)

\* The key of the final sort: a.appointmentDate || '' compared as strings; every
\* appointment that reaches the sort is on the panel's day, so the minute orders it.
sortKey(a) == IF a.appointmentDate.kind = "valid" THEN a.appointmentDate.minute ELSE 0 - 1

\* Stable insertion of a into the sorted sequence s.
RECURSIVE insertSorted(_, _)
insertSorted(s, a) ==
    IF s = <<>> THEN <<a>>
    ELSE IF sortKey(a) < sortKey(Head(s)) THEN <<a>> \o s
    ELSE <<Head(s)>> \o insertSorted(Tail(s), a)

RECURSIVE sortByTime(_)
sortByTime(s) ==
    IF s = <<>> THEN <<>>
    ELSE insertSorted(sortByTime(SubSeq(s, 1, Len(s) - 1)), s[Len(s)])

\* rightPanelAppointments
rightPanelAppointmentsOf(appts, date, term) ==
    sortByTime(SelectSeq(getAppointmentsForDate(appts, date),
                         LAMBDA a : matchesSearch(a, term)))

rightPanelAppointments ==
    rightPanelAppointmentsOf(appointments, rightPanelDate, searchTerm)

(***************************************************************************)
(* The slot-layout engine of the full variant.                             *)
(***************************************************************************)
GridStartHour == 8
GridEndHour == 20
SlotMinutes == 30
DefaultDuration == 60
MinutesPerDay == 24 * 60
SlotPixels == 60
MinBlockPixels == 40
hourHeight == 60
MinWeekBlockPixels == 20

\* generateTimeSlots(): 08:00, 08:30, ..., 19:30, 20:00.
RECURSIVE slotsFromHour(_)
slotsFromHour(hour) ==
    IF hour > GridEndHour THEN <<>>
    ELSE <<[hour |-> hour, minute |-> 0]>>
         \o (IF hour < GridEndHour THEN <<[hour |-> hour, minute |-> 30]>> ELSE <<>>)
         \o slotsFromHour(hour + 1)

generateTimeSlots == slotsFromHour(GridStartHour)

\* appointment.duration || 60
durationOf(a) == IF a.duration = 0 THEN DefaultDuration ELSE a.duration

\* getHours() * 60 + getMinutes() of a valid Date.
minutesOfDay(d) == d.minute

\* endTime = new Date(appointmentDate.getTime() + duration * 60000)
endTimeOf(d, duration) ==
    [valid |-> d.valid,
     day |-> d.day + (d.minute + duration) \div MinutesPerDay,
     minute |-> (d.minute + duration) % MinutesPerDay]

\* The three slot filters below are three copies in the source.  Each tests
\* appointmentStart < slotEnd && appointmentEnd > slotStart with the end taken from
\* the clock reading of endTime; every comparison with NaN is false.

\* Day view: the filter of slotAppointments.
daySlotFilter(a, slot) ==
    IF Falsy(a.appointmentDate) THEN FALSE
    ELSE LET appointmentDate == NewDate(a.appointmentDate)
             endTime == endTimeOf(appointmentDate, durationOf(a))
             slotStart == slot.hour * 60 + slot.minute
             slotEnd == slotStart + SlotMinutes
             appointmentStart == minutesOfDay(appointmentDate)
             appointmentEnd == minutesOfDay(endTime)
         IN  /\ appointmentDate.valid
             /\ appointmentStart < slotEnd
             /\ appointmentEnd > slotStart

\* A faulty week filter whose end test is closed (appointmentEnd >= slotStart).
weekSlotFilter_closedEnd(a, slot) ==
    IF Falsy(a.appointmentDate) THEN FALSE
    ELSE LET appointmentDate == NewDate(a.appointmentDate)
             endTime == endTimeOf(appointmentDate, durationOf(a))
             slotStart == slot.hour * 60 + slot.minute
             slotEnd == slotStart + SlotMinutes
             appointmentStart == minutesOfDay(appointmentDate)
             appointmentEnd == minutesOfDay(endTime)
         IN  /\ appointmentDate.valid
             /\ appointmentStart < slotEnd
             /\ appointmentEnd >= slotStart

\* Week view: the filter of visibleAppointments.
weekSlotFilter(a, slot) ==
    IF Falsy(a.appointmentDate) THEN FALSE
    ELSE LET appointmentDate == NewDate(a.appointmentDate)
             endTime == endTimeOf(appointmentDate, durationOf(a))
             slotStart == slot.hour * 60 + slot.minute
             slotEnd == slotStart + SlotMinutes
             appointmentStart == minutesOfDay(appointmentDate)
             appointmentEnd == minutesOfDay(endTime)
         IN  /\ appointmentDate.valid
             /\ appointmentStart < slotEnd
             /\ appointmentEnd > slotStart

\* Month view: the filter of slotAppointments.
monthSlotFilter(a, slot) ==
    IF Falsy(a.appointmentDate) THEN FALSE
    ELSE LET appointmentDate == NewDate(a.appointmentDate)
             endTime == endTimeOf(appointmentDate, durationOf(a))
             slotStart == slot.hour * 60 + slot.minute
             slotEnd == slotStart + SlotMinutes
             appointmentStart == minutesOfDay(appointmentDate)
             appointmentEnd == minutesOfDay(endTime)
         IN  /\ appointmentDate.valid
             /\ appointmentStart < slotEnd
             /\ appointmentEnd > slotStart

\* Day view: the appointments of one slot.
daySlotAppointments(appts, date, term, slot) ==
    SelectSeq(rightPanelAppointmentsOf(appts, date, term), LAMBDA a : daySlotFilter(a, slot))

\* Day view: the block of an appointment of a slot's set.  A block is returned
\* only in the slot the appointment starts in; top and height are pixels, a slot
\* of SlotMinutes being SlotPixels high, and the height is at least MinBlockPixels.
dayBlockDrawn(a, slot) ==
    LET appointmentDate == NewDate(a.appointmentDate)
        slotStartMinutes == slot.hour * 60 + slot.minute
        appointmentStartMinutes == minutesOfDay(appointmentDate)
    IN  /\ appointmentStartMinutes >= slotStartMinutes
        /\ appointmentStartMinutes < slotStartMinutes + SlotMinutes

dayBlockTop(a, slot) ==
    LET appointmentDate == NewDate(a.appointmentDate)
        slotStartMinutes == slot.hour * 60 + slot.minute
        appointmentStartMinutes == minutesOfDay(appointmentDate)
    IN  ((appointmentStartMinutes - slotStartMinutes) * SlotPixels) \div SlotMinutes

dayBlockHeight(a) ==
    LET appointmentDate == NewDate(a.appointmentDate)
        endTime == endTimeOf(appointmentDate, durationOf(a))
        appointmentStartMinutes == minutesOfDay(appointmentDate)
        appointmentEndMinutes == minutesOfDay(endTime)
        height == ((appointmentEndMinutes - appointmentStartMinutes) * SlotPixels)
                      \div SlotMinutes
    IN  IF height > MinBlockPixels THEN height ELSE MinBlockPixels

\* Week view: visibleAppointments of one slot in the column of `date`.
weekVisibleAppointments(appts, date, slot) ==
    SelectSeq(getAppointmentsForDate(appts, date), LAMBDA a : weekSlotFilter(a, slot))

\* Week view: whether the map callback returns a block (not null) for a visible
\* appointment in this slot.
weekBlockDrawn(a, slot) ==
    LET appointmentDate == NewDate(a.appointmentDate)
        appointmentHour == appointmentDate.minute \div 60
        endTime == endTimeOf(appointmentDate, durationOf(a))
        endHour == endTime.minute \div 60
    IN  \/ appointmentHour = slot.hour
        \/ appointmentHour < slot.hour /\ endHour >= slot.hour

\* Week view: top and height (pixels) of the rectangle drawn for a visible
\* appointment in the row of `slot`; hourHeight is the height of one row.
weekBlockTop(a, slot) ==
    LET appointmentDate == NewDate(a.appointmentDate)
        appointmentHour == appointmentDate.minute \div 60
        appointmentMinute == appointmentDate.minute % 60
    IN  IF appointmentHour = slot.hour
        THEN (appointmentMinute * hourHeight) \div 60
        ELSE 0

weekBlockHeight(a, slot) ==
    LET appointmentDate == NewDate(a.appointmentDate)
        appointmentHour == appointmentDate.minute \div 60
        appointmentMinute == appointmentDate.minute % 60
        duration == durationOf(a)
        endTime == endTimeOf(appointmentDate, duration)
        endHour == endTime.minute \div 60
        endMinute == endTime.minute % 60
        top == (appointmentMinute * hourHeight) \div 60
        remainingMinutes == duration - (60 - appointmentMinute)
        height ==
            IF appointmentHour = slot.hour
            THEN IF remainingMinutes > 0
                 THEN hourHeight - top
                 ELSE (duration * hourHeight) \div 60
            ELSE IF endHour = slot.hour
                 THEN (endMinute * hourHeight) \div 60
                 ELSE hourHeight
    IN  IF height > MinWeekBlockPixels THEN height ELSE MinWeekBlockPixels

\* Week view: the time and name label is rendered inside the rectangle when
\* appointmentHour === slot.hour.
weekLabelDrawn(a, slot) ==
    LET appointmentDate == NewDate(a.appointmentDate)
        appointmentHour == appointmentDate.minute \div 60
    IN  appointmentHour = slot.hour

\* Month header count: appointments of the anchor's month.
monthCount(appts, anchor) ==
    Len(SelectSeq(appts, LAMBDA a :
        IF Falsy(a.appointmentDate) THEN FALSE
        ELSE LET aptDate == NewDate(a.appointmentDate)
             IN  /\ aptDate.valid
                 /\ GetMonth(aptDate.day) = GetMonth(anchor)
                 /\ GetFullYear(aptDate.day) = GetFullYear(anchor)))

\* Year header count: appointments of the anchor's year.
yearCount(appts, anchor) ==
    Len(SelectSeq(appts, LAMBDA a :
        IF Falsy(a.appointmentDate) THEN FALSE
        ELSE LET aptDate == NewDate(a.appointmentDate)
             IN  aptDate.valid /\ GetFullYear(aptDate.day) = GetFullYear(anchor)))

\* Year view: monthAppointments of card i.
yearCardAppointments(appts, anchor, i) ==
    SelectSeq(appts, LAMBDA a :
        IF Falsy(a.appointmentDate) THEN FALSE
        ELSE LET aptDate == NewDate(a.appointmentDate)
             IN  /\ aptDate.valid
                 /\ GetMonth(aptDate.day) = i
                 /\ GetFullYear(aptDate.day) = GetFullYear(anchor))

\* Week header count: sum over the week's dates of getAppointmentsForDate.
RECURSIVE sumLen(_, _, _)
sumLen(appts, dates, k) ==
    IF k = 0 THEN 0
    ELSE sumLen(appts, dates, k - 1) + Len(getAppointmentsForDate(appts, dates[k]))

weekCount(appts, date) == sumLen(appts, getWeekDates(date), 7)

\* getTodayAppointments(): today 00:00 <= appointmentDate < tomorrow 00:00.
getTodayAppointments(appts, now) ==
    LET tomorrow == SetDate(now, GetDate(now) + 1)
    IN  sortByTime(SelectSeq(appts, LAMBDA a :
            IF Falsy(a.appointmentDate) THEN FALSE
            ELSE LET d == NewDate(a.appointmentDate)
                 IN  d.valid /\ d.day >= now /\ d.day < tomorrow))

\* The clock's minute of the day, fixed.
NowMinute == 8 * 60 + 45

\* getUpcomingAppointments(): now <= appointmentDate <= now + 30 minutes (the
\* members; their order is not modelled).
getUpcomingAppointments(appts, now) ==
    LET nowT == now * MinutesPerDay + NowMinute
        thirtyMinutesLater == nowT + 30
    IN  SelectSeq(appts, LAMBDA a :
            IF Falsy(a.appointmentDate) THEN FALSE
            ELSE LET d == NewDate(a.appointmentDate)
                     t == d.day * MinutesPerDay + d.minute
                 IN  d.valid /\ t >= nowT /\ t <= thirtyMinutesLater)

\* Month view: the appointments of one slot.
monthSlotAppointments(appts, date, term, slot) ==
    SelectSeq(rightPanelAppointmentsOf(appts, date, term), LAMBDA a : monthSlotFilter(a, slot))

(***************************************************************************)
(* The page as a state machine.                                            *)
(***************************************************************************)
NoError == "null"
FetchErrorMessage == "Unable to fetch appointments. Please ensure the backend server is running."
NoDate == NullCell

\* A faulty mount whose panel starts on the selected date.
Mounted_panelSelected(var, now, clicks) ==
    /\ variant = var
    /\ today = now
    /\ appointments = <<>>
    /\ loading = TRUE
    /\ error = NoError
    /\ searchTerm = <<>>
    /\ selectedDate = now
    /\ currentMonth = now
    /\ viewMode = (IF var = "simple" THEN "month" ELSE "day")
    /\ rightPanelMode = "selected"
    /\ fetchPc = "inflight"
    /\ fetchCount = 1
    /\ lastEvent = [type |-> "mount", date |-> NoDate]
    /\ budget = clicks

\* The state after mount: the useState defaults, the mount effect's
\* fetchAppointments() suspended at its await.
Mounted(var, now, clicks) ==
    /\ variant = var
    /\ today = now
    /\ appointments = <<>>
    /\ loading = TRUE
    /\ error = NoError
    /\ searchTerm = <<>>
    /\ selectedDate = now
    /\ currentMonth = now
    /\ viewMode = (IF var = "simple" THEN "month" ELSE "day")
    /\ rightPanelMode = "today"
    /\ fetchPc = "inflight"
    /\ fetchCount = 1
    /\ lastEvent = [type |-> "mount", date |-> NoDate]
    /\ budget = clicks

SetView(v) ==
    /\ currentMonth' = v.currentMonth
    /\ selectedDate' = v.selectedDate
    /\ viewMode' = v.viewMode
    /\ rightPanelMode' = v.rightPanelMode

\* A click handled: the view becomes v, nothing else changes.
UserEvent(type, date, v) ==
    /\ budget > 0
    /\ budget' = budget - 1
    /\ lastEvent' = [type |-> type, date |-> date]
    /\ SetView(v)
    /\ UNCHANGED <<variant, today, appointments, loading, error, searchTerm, fetchPc,
                   fetchCount,
                   booking>>

\* The mini calendar is always rendered by the simple variant and only in month
\* mode by the full variant.
CalendarShown == variant = "simple" \/ viewMode = "month"

HandlePrevious == UserEvent("previous", NoDate, handlePrevious(variant, View))

HandleNext == UserEvent("next", NoDate, handleNext(variant, View))

HandleToday == UserEvent("today", NoDate, handleToday(View, today))

GoToPreviousMonth ==
    /\ CalendarShown
    /\ UserEvent("previousMonth", NoDate, goToPreviousMonth(View))

GoToNextMonth ==
    /\ CalendarShown
    /\ UserEvent("nextMonth", NoDate, goToNextMonth(View))

HandleViewModeClose ==
    \E mode \in ViewModes \cup {"none"} :
        UserEvent("viewMode", NoDate, handleViewModeClose(View, mode))

PickTomorrow == UserEvent("tomorrow", SetDate(today, GetDate(today) + 1), pickTomorrow(View, today))

PickNextWeek == UserEvent("nextWeek", SetDate(today, GetDate(today) + 7), pickNextWeek(View, today))

\* The day cells offered to the click: the 1st, the 15th and the last of the grid.
CellPicks(grid) ==
    {i \in DOMAIN grid :
        /\ grid[i] # NullCell
        /\ \/ GetDate(grid[i]) \in {1, 15}
           \/ i = Len(grid)}

CalendarCellClick ==
    /\ CalendarShown
    /\ \E grid \in {getCalendarDays(currentMonth)} :
           \E i \in CellPicks(grid) :
               UserEvent("cell", grid[i], calendarCellClick(View, grid[i]))

\* A block of the week grid is there to click when some slot of the column
\* holds a visible appointment for which a block is drawn.
WeekBlockClick ==
    /\ variant = "full"
    /\ viewMode = "week"
    /\ ~loading
    /\ LET dates == getWeekDates(rightPanelDate)
       IN  \E k \in 1..7 :
               /\ \E n \in DOMAIN generateTimeSlots :
                      LET visible == weekVisibleAppointments(appointments, dates[k],
                                                             generateTimeSlots[n])
                      IN  \E j \in DOMAIN visible :
                              weekBlockDrawn(visible[j], generateTimeSlots[n])
               /\ UserEvent("weekBlock", dates[k], weekBlockClick(View, dates[k]))

\* The month cards offered to the click.
CardPicks == {0, 1, 11}

YearCardClick ==
    /\ variant = "full"
    /\ viewMode = "year"
    /\ ~loading
    /\ \E i \in CardPicks :
           UserEvent("yearCard", MakeDate(GetFullYear(currentMonth), i, 1),
                     yearCardClick(View, i))

\* A faulty search box that also sends the panel back to today.
SearchChange_selectsToday(terms) ==
    \E t \in terms :
        /\ t # searchTerm
        /\ budget > 0
        /\ budget' = budget - 1
        /\ searchTerm' = t
        /\ rightPanelMode' = "today"
        /\ lastEvent' = [type |-> "search", date |-> NoDate]
        /\ UNCHANGED <<variant, today, appointments, loading, error, selectedDate,
                       currentMonth, viewMode, fetchPc, fetchCount,
                   booking>>

\* onChange of the search box.
SearchChange(terms) ==
    \E t \in terms :
        /\ t # searchTerm
        /\ budget > 0
        /\ budget' = budget - 1
        /\ searchTerm' = t
        /\ lastEvent' = [type |-> "search", date |-> NoDate]
        /\ UNCHANGED <<variant, today, appointments, loading, error, selectedDate,
                       currentMonth, viewMode, rightPanelMode, fetchPc, fetchCount,
                   booking>>

\* A faulty reading of the response that only knows the wrapped shape
\* (response.data.appointments || []).
responseAppointments_wrappedOnly(r) ==
    CASE r.kind = "wrapped" -> r.list
      [] OTHER -> <<>>

\* response.data.appointments || response.data || []
responseAppointments(r) ==
    CASE r.kind = "wrapped" -> r.list
      [] r.kind = "bare" -> r.list
      [] OTHER -> <<>>

\* fetchAppointments() resumes with a response: the try branch, then finally.
FetchResolve(responses) ==
    /\ fetchPc = "inflight"
    /\ \E r \in responses :
           /\ appointments' = responseAppointments(r)
           /\ lastEvent' = [type |-> "fetchResolved", date |-> NoDate, response |-> r]
    /\ error' = NoError
    /\ loading' = FALSE
    /\ fetchPc' = "done"
    /\ UNCHANGED <<variant, today, searchTerm, selectedDate, currentMonth, viewMode,
                   rightPanelMode, budget, fetchCount,
                   booking>>

\* A faulty catch branch that calls fetchAppointments() again.
FetchReject_retries ==
    /\ fetchPc = "inflight"
    /\ error' = FetchErrorMessage
    /\ appointments' = <<>>
    /\ loading' = TRUE
    /\ fetchPc' = "inflight"
    /\ fetchCount' = fetchCount + 1
    /\ lastEvent' = [type |-> "fetchRejected", date |-> NoDate]
    /\ UNCHANGED <<variant, today, searchTerm, selectedDate, currentMonth, viewMode,
                   rightPanelMode, budget,
                   booking>>

\* A faulty fetchAppointments without its finally block.
FetchReject_keepsLoading ==
    /\ fetchPc = "inflight"
    /\ error' = FetchErrorMessage
    /\ appointments' = <<>>
    /\ fetchPc' = "done"
    /\ lastEvent' = [type |-> "fetchRejected", date |-> NoDate]
    /\ UNCHANGED <<variant, today, searchTerm, selectedDate, currentMonth, viewMode,
                   rightPanelMode, budget, fetchCount, loading,
                   booking>>

\* fetchAppointments() resumes with a rejection: the catch branch, then finally.
FetchReject ==
    /\ fetchPc = "inflight"
    /\ error' = FetchErrorMessage
    /\ appointments' = <<>>
    /\ loading' = FALSE
    /\ fetchPc' = "done"
    /\ lastEvent' = [type |-> "fetchRejected", date |-> NoDate]
    /\ UNCHANGED <<variant, today, searchTerm, selectedDate, currentMonth, viewMode,
                   rightPanelMode, budget, fetchCount,
                   booking>>

(***************************************************************************)
(* The Book Appointment page (src/unnamed/part_000): a four-step wizard.   *)
(* Its state is one record, `booking`.  Strings the code trims, splits or  *)
(* pads are sequences of one-character strings; the date and the type of   *)
(* the appointment are plain strings, "" when empty.                       *)
(***************************************************************************)
Empty == <<>>

RECURSIVE trimStart(_)
trimStart(s) == IF s # Empty /\ Head(s) = " " THEN trimStart(Tail(s)) ELSE s

RECURSIVE trimEnd(_)
trimEnd(s) ==
    IF s # Empty /\ s[Len(s)] = " " THEN trimEnd(SubSeq(s, 1, Len(s) - 1)) ELSE s

\* String.prototype.trim()
trim(s) == trimEnd(trimStart(s))

RECURSIVE takeWord(_)
takeWord(s) ==
    IF s = Empty \/ Head(s) = " " THEN Empty ELSE <<Head(s)>> \o takeWord(Tail(s))

\* s.split(/\s+/)
RECURSIVE splitSpaces(_)
splitSpaces(s) ==
    LET word == takeWord(s)
    IN  IF Len(word) = Len(s) THEN <<word>>
        ELSE <<word>> \o splitSpaces(trimStart(SubSeq(s, Len(word) + 1, Len(s))))

\* parts.join(' ')
RECURSIVE joinSpace(_)
joinSpace(parts) ==
    IF parts = <<>> THEN Empty
    ELSE IF Len(parts) = 1 THEN parts[1]
    ELSE parts[1] \o <<" ">> \o joinSpace(Tail(parts))

\* `${firstName} ${lastName}`
fullName(p) == p.firstName \o <<" ">> \o p.lastName

\* n.toString().padStart(2, '0') for 0 <= n < 100
Digits == <<"0", "1", "2", "3", "4", "5", "6", "7", "8", "9">>
padStart2(n) ==
    IF n < 10 THEN <<"0", Digits[n + 1]>> ELSE <<Digits[(n \div 10) + 1], Digits[(n % 10) + 1]>>

\* `${hour}:${minute}`, both padded
timeString(hour, minute) == padStart2(hour) \o <<":">> \o padStart2(minute)

BookingStartHour == 9
BookingEndHour == 17
BookingSlotMinutes == 30
DefaultBookingDuration == 60

\* Appointments the server already holds; the page never asks for them.
ExistingBookings == {[date |-> "2024-03-18", time |-> timeString(9, 0)]}

\* A faulty slot that is marked unavailable when its time is already booked.
RECURSIVE slotsOfHour_checksBooked(_, _)
slotsOfHour_checksBooked(hour, minute) ==
    IF minute < 60
    THEN <<[time |-> timeString(hour, minute),
            available |-> \A e \in ExistingBookings : e.time # timeString(hour, minute)]>>
         \o slotsOfHour_checksBooked(hour, minute + BookingSlotMinutes)
    ELSE <<>>

\* The inner loop of generateTimeSlots: minute = 0; minute < 60; minute += 30.
RECURSIVE slotsOfHour(_, _)
slotsOfHour(hour, minute) ==
    IF minute < 60
    THEN <<[time |-> timeString(hour, minute), available |-> TRUE]>>
         \o slotsOfHour(hour, minute + BookingSlotMinutes)
    ELSE <<>>

\* A faulty outer loop that runs to the end hour inclusive (hour <= endHour).
RECURSIVE bookingSlotsFromHour_closedEnd(_)
bookingSlotsFromHour_closedEnd(hour) ==
    IF hour <= BookingEndHour
    THEN slotsOfHour(hour, 0) \o bookingSlotsFromHour_closedEnd(hour + 1)
    ELSE <<>>

\* The outer loop of generateTimeSlots: hour = startHour; hour < endHour; hour++.
RECURSIVE bookingSlotsFromHour(_)
bookingSlotsFromHour(hour) ==
    IF hour < BookingEndHour
    THEN slotsOfHour(hour, 0) \o bookingSlotsFromHour(hour + 1)
    ELSE <<>>

\* generateTimeSlots() of the booking page: 09:00, 09:30, ..., 16:30.
generateTimeSlotsBooking == bookingSlotsFromHour(BookingStartHour)

steps == <<"Select Patient", "Choose Date & Time", "Appointment Details", "Confirmation">>

InitialFormData ==
    [patientId |-> Empty, patientName |-> Empty, appointmentDate |-> "",
     appointmentTime |-> Empty, appointmentType |-> "", duration |-> DefaultBookingDuration]

NoPayload == [sent |-> FALSE]

\* The page after construction: the mount effect has called fetchPatients().
BookingMounted ==
    [activeStep |-> 0, loading |-> FALSE, submitting |-> FALSE, error |-> NoError,
     success |-> FALSE, patients |-> {}, isNewPatient |-> FALSE,
     newPatientName |-> Empty, formData |-> InitialFormData,
     patientsPc |-> "inflight",    \* the mount effect's GET /api/patients
     creating |-> <<>>,            \* calls of handleCreateNewPatient not yet returned
     submitPc |-> "idle",          \* handleSubmit's POST /api/appointments
     patientPosts |-> 0,           \* POST /api/patients issued so far
     created |-> <<>>,             \* patients the server created, in order
     appointmentPosts |-> 0,       \* POST /api/appointments issued so far
     lastAppointment |-> NoPayload, \* body of the last POST /api/appointments
     last |-> [type |-> "mount"]]  \* the event handled last

\* What a handler reads from the render it was created in.
Render(b) ==
    [activeStep |-> b.activeStep, isNewPatient |-> b.isNewPatient,
     newPatientName |-> b.newPatientName, formData |-> b.formData]

\* handleFormChange(field, value)
handleFormChange(b, field, value) ==
    [b EXCEPT !.formData = [@ EXCEPT ![field] = value], !.error = NoError]

\* handlePatientSelect(value): null, a typed string, or a patient of the list.
handlePatientSelect(b, value) ==
    CASE value.kind = "null" ->
            [b EXCEPT !.formData = [@ EXCEPT !.patientId = Empty, !.patientName = Empty],
                      !.isNewPatient = FALSE, !.newPatientName = Empty, !.error = NoError]
      [] value.kind = "string" ->
            [b EXCEPT !.isNewPatient = TRUE, !.newPatientName = value.text,
                      !.formData = [@ EXCEPT !.patientId = Empty,
                                             !.patientName = trim(value.text)],
                      !.error = NoError]
      [] OTHER ->
            [b EXCEPT !.isNewPatient = FALSE, !.newPatientName = Empty,
                      !.formData = [@ EXCEPT !.patientId = value.patient.id,
                                             !.patientName = fullName(value.patient)],
                      !.error = NoError]

\* handleCreateNewPatient() as far as its first await: the guards, then
\* setLoading(true), setError(null) and the POST /api/patients.  c is the
\* render the handler belongs to.
handleCreateNewPatient(b, c) ==
    IF trim(c.newPatientName) = Empty
    THEN [b EXCEPT !.error = "Please enter patient name"]
    ELSE LET nameParts == splitSpaces(trim(c.newPatientName))
             firstName == nameParts[1]
             lastName == joinSpace(Tail(nameParts))
         IN  IF firstName = Empty
             THEN [b EXCEPT !.error = "Please enter a valid patient name"]
             ELSE [b EXCEPT !.loading = TRUE, !.error = NoError,
                            !.patientPosts = @ + 1,
                            !.creating = Append(@, [pc |-> "posting", render |-> c,
                                                    firstName |-> firstName,
                                                    lastName |-> lastName])]

\* handleNext() of the render c, run on the page state b.
handleNextStep(b, c) ==
    IF c.activeStep = 0 /\ c.formData.patientName = Empty
    THEN [b EXCEPT !.error = "Please select or enter a patient name"]
    ELSE IF c.activeStep = 0 /\ c.isNewPatient /\ c.formData.patientId = Empty
    THEN handleCreateNewPatient(b, c)
    ELSE IF c.activeStep = 1
            /\ (c.formData.appointmentDate = "" \/ c.formData.appointmentTime = Empty)
    THEN [b EXCEPT !.error = "Please select a date and time"]
    ELSE IF c.activeStep = 2 /\ c.formData.appointmentType = ""
    THEN [b EXCEPT !.error = "Please select an appointment type"]
    ELSE [b EXCEPT !.error = NoError, !.activeStep = @ + 1]

\* handleBack()
handleBack(b) == [b EXCEPT !.activeStep = @ - 1, !.error = NoError]

\* The body handleSubmit posts.  new Date(`${date}T${time}`).toISOString()
\* keeps the instant; it throws on an invalid date (a date without a time).
appointmentData(c) ==
    [sent |-> TRUE, patientId |-> c.formData.patientId,
     patientName |-> c.formData.patientName,
     appointmentDate |-> [date |-> c.formData.appointmentDate,
                          time |-> c.formData.appointmentTime],
     appointmentType |-> c.formData.appointmentType,
     duration |-> c.formData.duration, status |-> "scheduled"]

toISOStringThrows(c) ==
    c.formData.appointmentDate # "" /\ c.formData.appointmentTime = Empty

\* handleSubmit() as far as its await: setSubmitting(true), setError(null) and the
\* POST /api/appointments; when building the body throws, catch and finally.
handleSubmit(b, c) ==
    IF toISOStringThrows(c)
    THEN [b EXCEPT !.error = "Failed to create appointment. Please try again.",
                   !.submitting = FALSE]
    ELSE [b EXCEPT !.submitting = TRUE, !.error = NoError, !.submitPc = "posting",
                   !.appointmentPosts = @ + 1, !.lastAppointment = appointmentData(c)]

\* handleReset()
handleReset(b) ==
    [b EXCEPT !.formData = InitialFormData, !.activeStep = 0, !.error = NoError,
              !.success = FALSE]

\* The options of the time Select the user can pick: the Select is disabled
\* without a date, a MenuItem is disabled when its slot is not available.
selectableTimes(b) ==
    IF b.formData.appointmentDate = "" THEN {}
    ELSE {generateTimeSlotsBooking[i].time :
            i \in {j \in 1..Len(generateTimeSlotsBooking) :
                     generateTimeSlotsBooking[j].available}}

(***************************************************************************)
(* Inputs.                                                                 *)
(***************************************************************************)
Appointment(id, when, duration, name) ==
    [id |-> id, appointmentDate |-> when, duration |-> duration,
     patientName |-> name, patientEmail |-> <<>>, notes |-> <<>>]

At(day, minute) == [kind |-> "valid", day |-> day, minute |-> minute]
Absent == [kind |-> "absent", day |-> 0, minute |-> 0]
Malformed == [kind |-> "malformed", day |-> 0, minute |-> 0]

Wrapped(list) == [kind |-> "wrapped", list |-> list]
Bare(list) == [kind |-> "bare", list |-> list]
\* A response whose data is empty (falsy): neither an object nor a list.
NoBody == [kind |-> "empty", list |-> <<>>]

\* Clock days the page is mounted on: the 31st of January and the 29th of
\* February of a leap year, and a Sunday that ends a year.
Todays == {MakeDate(2024, 0, 31), MakeDate(2024, 1, 29), MakeDate(2023, 11, 31)}

SearchTerms == {<<>>, <<"s">>}

\* Responses of GET /api/appointments offered to the view-state machine.
NavResponses(now) ==
    {Bare(<<Appointment(1, At(now, 9 * 60), 60, <<"S", "m">>),
            Appointment(2, At(now + 1, 10 * 60), 0, <<"D">>)>>)}

(***************************************************************************)
(* Spec: the page from mount, every handler.                               *)
(***************************************************************************)
Init ==
    /\ \E var \in Variants : \E now \in Todays : Mounted(var, now, MaxEvents)
    /\ booking = BookingMounted

Next ==
    \/ HandlePrevious
    \/ HandleNext
    \/ HandleToday
    \/ GoToPreviousMonth
    \/ GoToNextMonth
    \/ HandleViewModeClose
    \/ PickTomorrow
    \/ PickNextWeek
    \/ CalendarCellClick
    \/ WeekBlockClick
    \/ YearCardClick
    \/ SearchChange(SearchTerms)
    \/ FetchResolve(NavResponses(today))
    \/ FetchReject

Spec == Init /\ [][Next]_vars

(***************************************************************************)
(* Properties of the view-state machine (Spec).                            *)
(***************************************************************************)
StepTypes == {"next", "previous"}
PickTypes == {"cell", "tomorrow", "nextWeek", "weekBlock"}

\* Months counted from year 0, to compare calendar months.
MonthIndex(z) == GetFullYear(z) * 12 + GetMonth(z)

\* C1: in every granularity and from every anchor, next followed by previous
\* (and previous followed by next) leaves currentMonth at its starting value.
\* Stated on each next (previous) step: undoing it with the other handler gives
\* the anchor the step started from.
C1_NextPreviousRoundTrip ==
    [][/\ lastEvent'.type = "next"
          => handlePrevious(variant', View').currentMonth = currentMonth
       /\ lastEvent'.type = "previous"
          => handleNext(variant', View').currentMonth = currentMonth]_vars

\* C7: in every reachable state the panel shows selectedDate: in mode 'today'
\* selectedDate is today's date, in mode 'selected' the panel date is selectedDate.
C7_PanelShowsSelectedDate ==
    /\ rightPanelMode = "today" => selectedDate = today
    /\ rightPanelMode = "selected" => rightPanelDate = selectedDate

\* C8: every date-pick action (calendar cell, Tomorrow, Next Week, week-view
\* block) sets selectedDate to the picked date and the panel mode to 'selected'.
C8_PickSelectsDate ==
    lastEvent.type \in PickTypes =>
        /\ rightPanelMode = "selected"
        /\ lastEvent.type \in {"cell", "weekBlock"} => selectedDate = lastEvent.date
        /\ lastEvent.type = "tomorrow" => selectedDate = today + 1
        /\ lastEvent.type = "nextWeek" => selectedDate = today + 7

\* A week-view block was clicked while the panel was on another day than today's.
C8_Witness ==
    /\ lastEvent.type = "weekBlock"
    /\ selectedDate # today
    /\ rightPanelMode = "selected"

\* C9: from any state, handleToday sets currentMonth and selectedDate to today
\* and the panel mode to 'today', and leaves the granularity unchanged.
C9_TodayResets ==
    [][lastEvent'.type = "today"
       => /\ currentMonth' = today
          /\ selectedDate' = today
          /\ rightPanelMode' = "today"
          /\ viewMode' = viewMode]_vars

\* Today was clicked as the third click, in year view.
C9_Witness ==
    /\ lastEvent.type = "today"
    /\ viewMode = "year"
    /\ budget = MaxEvents - 3
    /\ currentMonth = today

\* C10: next/previous moves both currentMonth and selectedDate by one day in day
\* granularity and by seven days in week granularity; in month and year
\* granularity it moves currentMonth by one month or one year.
C10_StepMovesAnchorAndSelected ==
    [][lastEvent'.type \in StepTypes
       => LET dir == IF lastEvent'.type = "next" THEN 1 ELSE 0 - 1
          IN  /\ viewMode = "day"
                 => currentMonth' = currentMonth + dir /\ selectedDate' = selectedDate + dir
              /\ viewMode = "week"
                 => /\ currentMonth' = currentMonth + 7 * dir
                    /\ selectedDate' = selectedDate + 7 * dir
              /\ viewMode = "month"
                 => MonthIndex(currentMonth') = MonthIndex(currentMonth) + dir
              /\ viewMode = "year"
                 => GetFullYear(currentMonth') = GetFullYear(currentMonth) + dir]_vars

\* C11: in month granularity next moves currentMonth into the calendar month
\* just after the anchor's month and previous into the one just before it, the
\* day of month clamped to the length of the target month.
C11_MonthStepClamps ==
    [][(lastEvent'.type \in StepTypes /\ viewMode = "month")
       => LET dir == IF lastEvent'.type = "next" THEN 1 ELSE 0 - 1
              target == MonthIndex(currentMonth) + dir
              length == DaysInMonth(target \div 12, target % 12)
              day == GetDate(currentMonth)
          IN  /\ MonthIndex(currentMonth') = target
              /\ GetDate(currentMonth') = (IF day > length THEN length ELSE day)]_vars

\* C12: choosing a granularity from the view-mode menu replaces viewMode and
\* leaves currentMonth, selectedDate, rightPanelMode, searchTerm and appointments
\* unchanged; closing the menu without a choice changes none of them.
C12_ViewModeFrame ==
    [][lastEvent'.type = "viewMode"
       => /\ currentMonth' = currentMonth
          /\ selectedDate' = selectedDate
          /\ rightPanelMode' = rightPanelMode
          /\ searchTerm' = searchTerm
          /\ appointments' = appointments
          /\ viewMode' \in {handleViewModeClose(View, mode).viewMode :
                                mode \in ViewModes \cup {"none"}}
          /\ \A mode \in ViewModes : handleViewModeClose(View, mode).viewMode = mode
          /\ handleViewModeClose(View, "none") = View]_vars

\* Week was chosen from the menu while another day than the anchor's was selected
\* and the list was loaded.
C12_Witness ==
    /\ lastEvent.type = "viewMode"
    /\ viewMode = "week"
    /\ selectedDate # currentMonth
    /\ rightPanelMode = "selected"
    /\ appointments # <<>>

\* C13: clicking the card of month m in year view sets currentMonth and
\* selectedDate both to the 1st of month m of the displayed year and viewMode
\* to month.
C13_YearCardPicksMonth ==
    [][lastEvent'.type = "yearCard"
       => /\ GetFullYear(currentMonth') = GetFullYear(currentMonth)
          /\ GetDate(currentMonth') = 1
          /\ currentMonth' = lastEvent'.date
          /\ selectedDate' = currentMonth'
          /\ viewMode' = "month"
          /\ \A m \in 0..11 :
                 \E after \in {yearCardClick(View, m)} :
                     /\ GetMonth(after.currentMonth) = m
                     /\ GetFullYear(after.currentMonth) = GetFullYear(currentMonth)
                     /\ GetDate(after.currentMonth) = 1
                     /\ after.selectedDate = after.currentMonth
                     /\ after.viewMode = "month"]_vars

\* The December card was clicked after the displayed year had been stepped.
C13_Witness ==
    /\ lastEvent.type = "yearCard"
    /\ GetMonth(currentMonth) = 11
    /\ GetFullYear(currentMonth) # GetFullYear(today)
    /\ selectedDate = currentMonth
    /\ viewMode = "month"

\* C14: after every date pick (calendar cell, Tomorrow, Next Week, week-view
\* block) currentMonth and selectedDate lie in the same calendar month.
C14_PickSyncsAnchorMonth ==
    lastEvent.type \in PickTypes => MonthIndex(currentMonth) = MonthIndex(selectedDate)

\* C16: exactly one appointment fetch is issued in the page's life, at mount:
\* no click, search edit or fetch outcome issues another, and a settled fetch is
\* never in flight again.
C16_SingleFetch ==
    /\ [](fetchCount = 1)
    /\ [][fetchPc' = "inflight" => fetchPc = "inflight"]_vars

\* The fetch failed and the user spent every click: still one fetch.
C16_Witness ==
    /\ fetchPc = "done"
    /\ error = FetchErrorMessage
    /\ budget = 0
    /\ lastEvent.type \in StepTypes
    /\ fetchCount = 1

\* C17: loading is true from mount until the fetch settles and false in every
\* state after it has settled; while the request has not settled nothing else
\* clears it.
C17_LoadingUntilSettled ==
    /\ [](loading <=> fetchPc = "inflight")
    /\ [][loading' # loading
          => /\ loading
             /\ lastEvent'.type \in {"fetchResolved", "fetchRejected"}]_vars

\* The request is still pending after the user spent every click.
C17_Witness ==
    /\ loading
    /\ fetchPc = "inflight"
    /\ budget = 0
    /\ lastEvent.type = "search"

\* C20: on mount currentMonth = selectedDate = today, the panel mode is 'today',
\* the granularity is day (full variant) or month (simple variant), the list is
\* empty, loading is true and there is no error.
C20_MountState ==
    lastEvent.type = "mount" =>
        /\ currentMonth = today
        /\ selectedDate = today
        /\ rightPanelMode = "today"
        /\ viewMode = (IF variant = "full" THEN "day" ELSE "month")
        /\ appointments = <<>>
        /\ loading
        /\ error = NoError

\* The simple variant just mounted on the last day of a year.
C20_Witness ==
    /\ lastEvent.type = "mount"
    /\ variant = "simple"
    /\ viewMode = "month"
    /\ budget = MaxEvents
    /\ GetMonth(today) = 11

(***************************************************************************)
(* SpecCalendar: the page mounted on any day of CalendarYears years from    *)
(* 2023 (2024 is a leap year), followed by one click and the fetch: the     *)
(* inputs of getCalendarDays (currentMonth) and getWeekDates                *)
(* (rightPanelDate).                                                        *)
(***************************************************************************)
CalendarDays == MakeDate(2023, 0, 1) .. (MakeDate(2023 + CalendarYears, 0, 1) - 1)

CalendarResponses == {Wrapped(<<>>)}

InitCalendar ==
    /\ \E var \in Variants : \E now \in CalendarDays : Mounted(var, now, 1)
    /\ booking = BookingMounted

NextCalendar ==
    \/ HandlePrevious
    \/ HandleNext
    \/ GoToPreviousMonth
    \/ GoToNextMonth
    \/ HandleViewModeClose
    \/ PickNextWeek
    \/ FetchResolve(CalendarResponses)

SpecCalendar == InitCalendar /\ [][NextCalendar]_vars

IsLeapYear(y) == (y % 4 = 0 /\ y % 100 # 0) \/ y % 400 = 0

calendarDays == getCalendarDays(currentMonth)

\* The first and the last day of the anchor's month, by their neighbours: the day
\* before the first and the day after the last lie in other months.
IsFirstOfMonth(z) == MonthIndex(z - 1) # MonthIndex(z)
IsLastOfMonth(z) == MonthIndex(z + 1) # MonthIndex(z)

\* C2 as stated: the grid's length is a multiple of 7 (complete weeks, with
\* empty placeholders after the last day of the month).
C2_GridWholeWeeks == Len(calendarDays) % 7 = 0

\* C2 as amended: the grid is the weekday of the 1st many empty placeholders
\* followed by the days of the month and nothing else: its last cell is the last
\* day of the month, and its length is a multiple of 7 exactly when the month
\* ends on a Saturday.
C2_GridEndsWithMonth ==
    \E grid \in {calendarDays} :
    \E n \in {Len(grid)} :
    \E leading \in {Cardinality({i \in 1..n : grid[i] = NullCell})} :
        /\ n >= 28
        /\ \A i \in 1..n : grid[i] = NullCell <=> i <= leading
        /\ IsFirstOfMonth(grid[leading + 1])
        /\ leading = GetDay(grid[leading + 1])
        /\ IsLastOfMonth(grid[n])
        /\ MonthIndex(grid[n]) = MonthIndex(currentMonth)
        /\ n % 7 = 0 <=> GetDay(grid[n]) = 6

\* The grid of February 2024: 4 placeholders and 29 days, 33 cells.
C2_Witness ==
    /\ GetFullYear(currentMonth) = 2024
    /\ GetMonth(currentMonth) = 1
    /\ Len(calendarDays) = 33
    /\ lastEvent.type = "nextMonth"

\* C3: the grid holds the 1st of the month at the index equal to the weekday of
\* the 1st (Sunday = 0) with only placeholders before it, then every day of the
\* month exactly once in ascending order; February of a leap year has its 29th.
\* (The cells from the 1st on are consecutive days, all of the anchor's month,
\* and the days just before the first and just after the last are not.)
C3_GridHoldsMonth ==
    \E grid \in {calendarDays} :
    \E first \in {MakeDate(GetFullYear(currentMonth), GetMonth(currentMonth), 1)} :
    \E w \in {GetDay(first)} :
        /\ grid[w + 1] = first
        /\ \A i \in 1..w : grid[i] = NullCell
        /\ \A i \in (w + 1)..Len(grid) :
               /\ grid[i] = first + (i - w - 1)
               /\ MonthIndex(grid[i]) = MonthIndex(currentMonth)
        /\ MonthIndex(first - 1) # MonthIndex(currentMonth)
        /\ MonthIndex(grid[Len(grid)] + 1) # MonthIndex(currentMonth)
        /\ (GetMonth(currentMonth) = 1 /\ IsLeapYear(GetFullYear(currentMonth)))
               => \E i \in DOMAIN grid : grid[i] # NullCell /\ GetDate(grid[i]) = 29

\* The anchor stepped into February of a leap year, whose 1st is a Thursday.
C3_Witness ==
    /\ IsLeapYear(GetFullYear(currentMonth))
    /\ GetMonth(currentMonth) = 1
    /\ GetDay(MakeDate(GetFullYear(currentMonth), 1, 1)) = 4
    /\ lastEvent.type \in {"next", "previous"}

\* C4: getWeekDates returns 7 consecutive calendar days, the first a Monday,
\* and the anchor's day is one of them.
C4_WeekDates ==
    \E week \in {getWeekDates(rightPanelDate)} :
        /\ Len(week) = 7
        /\ \A k \in 1..6 : week[k + 1] = week[k] + 1
        /\ GetDay(week[1]) = 1
        /\ \E k \in 1..7 : week[k] = rightPanelDate

\* Week view drawn for a Sunday whose Monday lies in the previous year.
C4_Witness ==
    /\ viewMode = "week"
    /\ ~loading
    /\ GetDay(rightPanelDate) = 0
    /\ GetFullYear(getWeekDates(rightPanelDate)[1]) = GetFullYear(rightPanelDate) - 1

(***************************************************************************)
(* SpecLayout: the page mounted on Friday 2024-03-15, the fetch answered    *)
(* with one appointment of any start and duration of the sets below (or     *)
(* with a list that holds appointments without a usable date), and two      *)
(* clicks.                                                                  *)
(***************************************************************************)
LayoutToday == MakeDate(2024, 2, 15)

StartMinutes ==
    {0, 7 * 60 + 45, 8 * 60, 8 * 60 + 15, 9 * 60, 12 * 60 + 30, 19 * 60 + 30,
     20 * 60, 20 * 60 + 15, 23 * 60 + 30}

Durations == {0, 15, 30, 45, 60, 90, 270, 300, 1440}

Name1 == <<"S", "m">>

LayoutResponses(now) ==
    {Wrapped(<<Appointment(1, At(day, minute), duration, Name1)>>) :
        day \in {now, now + 1}, minute \in StartMinutes, duration \in Durations}
    \cup
    {Bare(<<Appointment(1, Absent, 60, Name1),
            Appointment(2, At(now, 9 * 60), 60, Name1),
            Appointment(3, Malformed, 0, Name1)>>),
     Bare(<<Appointment(1, Malformed, 30, Name1), Appointment(2, Absent, 0, Name1)>>),
     NoBody}

InitLayout ==
    /\ \E var \in Variants : Mounted(var, LayoutToday, 2)
    /\ booking = BookingMounted

NextLayout ==
    \/ FetchResolve(LayoutResponses(today))
    \/ FetchReject
    \/ HandleViewModeClose
    \/ HandleNext
    \/ WeekBlockClick
    \/ SearchChange(SearchTerms)

SpecLayout == InitLayout /\ [][NextLayout]_vars

\* The elements of a sequence.
Range(seq) == {seq[i] : i \in DOMAIN seq}

\* The half-open interval test on the appointment's own start and duration.
IntervalsOverlap(a, slot) ==
    LET start == a.appointmentDate.minute
        duration == IF a.duration = 0 THEN 60 ELSE a.duration
        slotStart == slot.hour * 60 + slot.minute
    IN  start < slotStart + 30 /\ start + duration > slotStart

\* C5: for every appointment of the displayed day and every 30-minute slot, the
\* slot's appointment set contains the appointment if and only if
\* start < slotEnd and start + duration > slotStart (a missing duration counts
\* as 60 minutes; the end may lie past midnight).  Day view and week view.
C5_SlotMembership ==
    /\ (variant = "full" /\ viewMode = "day" /\ ~loading) =>
           \A a \in Range(rightPanelAppointments) :
               \A n \in DOMAIN generateTimeSlots :
                   (a \in Range(daySlotAppointments(appointments, rightPanelDate,
                                                    searchTerm, generateTimeSlots[n])))
                       <=> IntervalsOverlap(a, generateTimeSlots[n])
    /\ (variant = "full" /\ viewMode = "week" /\ ~loading) =>
           \E dates \in {getWeekDates(rightPanelDate)} :
               \A k \in 1..7 :
                   \A a \in Range(getAppointmentsForDate(appointments, dates[k])) :
                       \A n \in DOMAIN generateTimeSlots :
                           (a \in Range(weekVisibleAppointments(appointments, dates[k],
                                                                generateTimeSlots[n])))
                               <=> IntervalsOverlap(a, generateTimeSlots[n])

\* The appointments with a date Date can read.
Dated(appts) == SelectSeq(appts, LAMBDA a : a.appointmentDate.kind = "valid")
AllDated(seq) == \A a \in Range(seq) : a.appointmentDate.kind = "valid"

\* The dates some view asks getAppointmentsForDate about.
ShownDates ==
    {today, selectedDate}
        \cup Range(getWeekDates(rightPanelDate))
        \cup (Range(calendarDays) \ {NullCell})

\* C6: an appointment whose appointmentDate is absent or malformed is in no
\* date-bucketed result: no day's list, no day or week slot, no presence dot,
\* no week, month or year count, not in today's list nor the upcoming list.
C6_UndatedInNoBucket ==
    (\E a \in Range(appointments) : a.appointmentDate.kind # "valid") =>
        /\ \A d \in ShownDates :
               /\ AllDated(getAppointmentsForDate(appointments, d))
               /\ hasAppointments(appointments, d) = hasAppointments(Dated(appointments), d)
        /\ AllDated(rightPanelAppointments)
        /\ \A n \in DOMAIN generateTimeSlots :
               /\ AllDated(daySlotAppointments(appointments, rightPanelDate, searchTerm,
                                               generateTimeSlots[n]))
               /\ AllDated(monthSlotAppointments(appointments, rightPanelDate, searchTerm,
                                                 generateTimeSlots[n]))
               /\ \A d \in Range(getWeekDates(rightPanelDate)) :
                      AllDated(weekVisibleAppointments(appointments, d, generateTimeSlots[n]))
        /\ weekCount(appointments, rightPanelDate) = weekCount(Dated(appointments), rightPanelDate)
        /\ monthCount(appointments, currentMonth) = monthCount(Dated(appointments), currentMonth)
        /\ yearCount(appointments, currentMonth) = yearCount(Dated(appointments), currentMonth)
        /\ \A i \in 0..11 : AllDated(yearCardAppointments(appointments, currentMonth, i))
        /\ AllDated(getTodayAppointments(appointments, today))
        /\ AllDated(getUpcomingAppointments(appointments, today))

\* Week view drawn from a list that holds an appointment without a date, one
\* with a malformed date and a dated one, which alone is counted.
C6_Witness ==
    /\ viewMode = "week"
    /\ ~loading
    /\ \E a \in Range(appointments) : a.appointmentDate.kind = "absent"
    /\ \E a \in Range(appointments) : a.appointmentDate.kind = "malformed"
    /\ weekCount(appointments, rightPanelDate) = 1

\* C15: when the fetch fails, the list is empty, the error message is set and
\* loading is false once fetchAppointments has run to its end; when it succeeds
\* the error is null, loading is false and the list is the response's
\* appointments array, or the response itself when it is the bare array.
C15_FetchOutcome ==
    /\ [](fetchPc = "done"
            => /\ ~loading
               /\ \/ error = NoError
                  \/ error = FetchErrorMessage /\ appointments = <<>>)
    /\ [][/\ lastEvent'.type = "fetchRejected"
             => /\ appointments' = <<>>
                /\ error' = FetchErrorMessage
                /\ ~loading'
                /\ fetchPc' = "done"
          /\ lastEvent'.type = "fetchResolved"
             => /\ error' = NoError
                /\ ~loading'
                /\ fetchPc' = "done"
                /\ lastEvent'.response.kind \in {"wrapped", "bare"}
                       => appointments' = lastEvent'.response.list]_vars

\* The fetch failed and the page went on to week view with an empty list.
C15_Witness ==
    /\ error = FetchErrorMessage
    /\ appointments = <<>>
    /\ ~loading
    /\ viewMode = "week"
    /\ lastEvent.type = "viewMode"

\* The grid window: from the start of the first slot to the end of the last.
GridWindowStart == GridStartHour * 60
GridWindowEnd == GridEndHour * 60 + SlotMinutes

\* The slots of the day grid that draw a block for appointment a.
dayBlocks(a) ==
    {n \in DOMAIN generateTimeSlots :
        /\ a \in Range(daySlotAppointments(appointments, rightPanelDate, searchTerm,
                                            generateTimeSlots[n]))
        /\ dayBlockDrawn(a, generateTimeSlots[n])}

\* C19: in day view an appointment of the displayed date that starts inside the
\* grid window produces exactly one block, drawn in the slot that contains its
\* start, as high as its duration at the grid scale (SlotPixels per
\* SlotMinutes); each later slot it overlaps holds it in its set and draws no
\* second block.
C19_DayBlock ==
    (variant = "full" /\ viewMode = "day" /\ ~loading) =>
        \A a \in Range(rightPanelAppointments) :
            \E start \in {a.appointmentDate.minute} :
            \E duration \in {IF a.duration = 0 THEN 60 ELSE a.duration} :
                (start >= GridWindowStart /\ start < GridWindowEnd) =>
                    \E blocks \in {dayBlocks(a)} :
                        /\ Cardinality(blocks) = 1
                        /\ \A n \in blocks :
                               \E slotStart \in {generateTimeSlots[n].hour * 60
                                                     + generateTimeSlots[n].minute} :
                                   /\ slotStart <= start
                                   /\ start < slotStart + 30
                                   /\ dayBlockTop(a, generateTimeSlots[n]) = 2 * (start - slotStart)
                                   /\ dayBlockHeight(a) = 2 * duration
                                   /\ \A m \in DOMAIN generateTimeSlots :
                                          (m > n /\ generateTimeSlots[m].hour * 60
                                                      + generateTimeSlots[m].minute
                                                    < start + duration)
                                              => a \in Range(daySlotAppointments(
                                                     appointments, rightPanelDate,
                                                     searchTerm, generateTimeSlots[m]))

(***************************************************************************)
(* SpecSearch: the page mounted on LayoutToday, the fetch answered with a   *)
(* list whose appointments match a search term in their name, their email,  *)
(* their notes or nowhere, on the displayed day and on the next, and two    *)
(* clicks among the search box, Tomorrow and Today.                         *)
(***************************************************************************)
Patient(id, when, name, email, notes) ==
    [id |-> id, appointmentDate |-> when, duration |-> 30,
     patientName |-> name, patientEmail |-> email, notes |-> notes]

SearchResponses(now) ==
    {Bare(<<Patient(1, At(now, 9 * 60), <<"S", "m">>, <<>>, <<>>),
            Patient(2, At(now, 10 * 60), <<"d">>, <<"d", "S">>, <<>>),
            Patient(3, At(now, 8 * 60), <<"m">>, <<>>, <<"x", "s", "m">>),
            Patient(4, At(now + 1, 9 * 60), <<"S", "m">>, <<>>, <<"D">>),
            Patient(5, At(now, 11 * 60), <<"m">>, <<"m">>, <<>>)>>),
     Wrapped(<<Patient(1, At(now + 1, 9 * 60), <<"d", "s">>, <<>>, <<>>),
               Patient(2, At(now, 9 * 60), <<>>, <<>>, <<"m", "D">>)>>)}

SearchTermsWide == {<<>>, <<"s">>, <<"S", "m">>, <<"D">>, <<"x", "x">>}

InitSearch ==
    /\ \E var \in Variants : Mounted(var, LayoutToday, 2)
    /\ booking = BookingMounted

NextSearch ==
    \/ FetchResolve(SearchResponses(today))
    \/ SearchChange(SearchTermsWide)
    \/ PickTomorrow
    \/ HandleToday

SpecSearch == InitSearch /\ [][NextSearch]_vars

\* Two characters that are the same letter, whatever their case.
SameLetter(c, d) == c = d \/ {c, d} \in {{"S", "s"}, {"D", "d"}}

\* term occurs in field as a substring, case ignored.
ContainsIgnoringCase(field, term) ==
    \E k \in 0..(Len(field) - Len(term)) :
        \A i \in 1..Len(term) : SameLetter(field[k + i], term[i])

\* C18: the panel's list is exactly the appointments of the displayed date whose
\* patientName, patientEmail or notes contains the search term as a
\* case-insensitive substring (all of that date's appointments when the term is
\* empty): none of another date, none that matches in no field.
C18_PanelListIsSearchFilter ==
    \E expected \in {{a \in Range(appointments) :
                          /\ a.appointmentDate.kind = "valid"
                          /\ a.appointmentDate.day = rightPanelDate
                          /\ \/ searchTerm = <<>>
                             \/ ContainsIgnoringCase(a.patientName, searchTerm)
                             \/ ContainsIgnoringCase(a.patientEmail, searchTerm)
                             \/ ContainsIgnoringCase(a.notes, searchTerm)}} :
        /\ Range(rightPanelAppointments) = expected
        /\ Len(rightPanelAppointments) = Cardinality(expected)

\* Today's panel with the term "Sm": of today's four appointments the one named
\* "Sm" and the one whose notes hold "sm" are listed.
C18_Witness ==
    /\ searchTerm = <<"S", "m">>
    /\ rightPanelMode = "today"
    /\ Len(getAppointmentsForDate(appointments, today)) = 4
    /\ Len(rightPanelAppointments) = 2
    /\ \E a \in Range(rightPanelAppointments) : a.patientName = <<"m">>

(***************************************************************************)
(* More properties of the view-state machine (Spec, SpecCalendar).         *)
(***************************************************************************)
NavigationTypes ==
    {"previous", "next", "today", "previousMonth", "nextMonth", "viewMode",
     "tomorrow", "nextWeek", "cell", "weekBlock", "yearCard"}

\* C21: the view state (currentMonth, selectedDate, viewMode, rightPanelMode)
\* changes only through navigation actions: the fetch settling and edits of the
\* search term leave all four unchanged, and no navigation action changes
\* appointments, loading or error.
C21_ViewFrame ==
    [][/\ lastEvent'.type \in {"fetchResolved", "fetchRejected", "search"}
          => View' = View
       /\ View' # View => lastEvent'.type \in NavigationTypes
       /\ lastEvent'.type \in NavigationTypes
          => /\ appointments' = appointments
             /\ loading' = loading
             /\ error' = error]_vars

\* The search term was edited while the panel showed a picked date, after the
\* fetch had failed.
C21_Witness ==
    /\ lastEvent.type = "search"
    /\ rightPanelMode = "selected"
    /\ selectedDate # today
    /\ error = FetchErrorMessage

\* C30: goToNextMonth / goToPreviousMonth set currentMonth to the 1st of the
\* month just after / before the anchor's month, whatever the anchor's day of
\* month; goToNextMonth followed by goToPreviousMonth returns to the anchor's
\* month and year; selectedDate, rightPanelMode and viewMode are unchanged.
C30_MonthArrows ==
    [][/\ lastEvent'.type = "nextMonth"
          => /\ MonthIndex(currentMonth') = MonthIndex(currentMonth) + 1
             /\ GetDate(currentMonth') = 1
             /\ MonthIndex(goToPreviousMonth(View').currentMonth) = MonthIndex(currentMonth)
       /\ lastEvent'.type = "previousMonth"
          => /\ MonthIndex(currentMonth') = MonthIndex(currentMonth) - 1
             /\ GetDate(currentMonth') = 1
       /\ lastEvent'.type \in {"nextMonth", "previousMonth"}
          => /\ selectedDate' = selectedDate
             /\ rightPanelMode' = rightPanelMode
             /\ viewMode' = viewMode]_vars

\* The next-month arrow was pressed with the anchor on the 31st of January.
C30_Witness ==
    /\ lastEvent.type = "nextMonth"
    /\ GetDate(today) = 31
    /\ GetMonth(today) = 0
    /\ GetMonth(currentMonth) = 1
    /\ selectedDate = today

(***************************************************************************)
(* More properties of the slot layout (SpecLayout).                        *)
(***************************************************************************)
\* Minute of the day at which slot n of the grid starts.
SlotStart(n) == generateTimeSlots[n].hour * 60 + generateTimeSlots[n].minute

\* The slots whose half-hour contains the start of appointment a.
StartSlots(a) ==
    {n \in DOMAIN generateTimeSlots :
        /\ SlotStart(n) <= a.appointmentDate.minute
        /\ a.appointmentDate.minute < SlotStart(n) + 30}

InGridWindow(a) ==
    /\ a.appointmentDate.minute >= GridWindowStart
    /\ a.appointmentDate.minute < GridWindowEnd

\* The slots of the week grid, in the column of `date`, that draw a rectangle
\* for appointment a, and those that draw its label.
weekBlocks(a, date) ==
    {n \in DOMAIN generateTimeSlots :
        /\ a \in Range(weekVisibleAppointments(appointments, date, generateTimeSlots[n]))
        /\ weekBlockDrawn(a, generateTimeSlots[n])}

weekLabels(a, date) ==
    {n \in weekBlocks(a, date) : weekLabelDrawn(a, generateTimeSlots[n])}

\* C24: in the day and week grids the label of an appointment (that starts
\* inside the grid window) is drawn in exactly one slot, the slot in which the
\* appointment starts, and in no other slot it overlaps.
C24_LabelOnce ==
    /\ (variant = "full" /\ viewMode = "day" /\ ~loading) =>
           \A a \in Range(rightPanelAppointments) :
               InGridWindow(a) => dayBlocks(a) = StartSlots(a)
    /\ (variant = "full" /\ viewMode = "week" /\ ~loading) =>
           \E dates \in {getWeekDates(rightPanelDate)} :
               \A k \in 1..7 :
                   \A a \in Range(getAppointmentsForDate(appointments, dates[k])) :
                       InGridWindow(a) => weekLabels(a, dates[k]) = StartSlots(a)

\* C25: in week view the rectangles drawn for one appointment tile exactly the
\* grid span of [start, start + duration) at 60 px per 30-minute row: in every
\* row the span reaches, a rectangle covers exactly the part of the span inside
\* the row, and no rectangle is drawn in any other row.
C25_WeekRectanglesTile ==
    (variant = "full" /\ viewMode = "week" /\ ~loading) =>
        \E dates \in {getWeekDates(rightPanelDate)} :
            \A k \in 1..7 :
                \A a \in Range(getAppointmentsForDate(appointments, dates[k])) :
                    \E lo \in {2 * (a.appointmentDate.minute - GridWindowStart)} :
                    \E hi \in {lo + 2 * (IF a.duration = 0 THEN 60 ELSE a.duration)} :
                    \E blocks \in {weekBlocks(a, dates[k])} :
                        \A n \in DOMAIN generateTimeSlots :
                            \E rowTop \in {(n - 1) * 60} :
                                IF lo < rowTop + 60 /\ hi > rowTop
                                THEN /\ n \in blocks
                                     /\ rowTop + weekBlockTop(a, generateTimeSlots[n])
                                            = (IF lo > rowTop THEN lo ELSE rowTop)
                                     /\ rowTop + weekBlockTop(a, generateTimeSlots[n])
                                               + weekBlockHeight(a, generateTimeSlots[n])
                                            = (IF hi < rowTop + 60 THEN hi ELSE rowTop + 60)
                                ELSE n \notin blocks

\* C26: for every appointment and every 30-minute slot the day-view filter, the
\* week-view filter and the month-mode filter give the same membership answer.
C26_FiltersAgree ==
    \A a \in Range(appointments) :
        \A n \in DOMAIN generateTimeSlots :
            /\ daySlotFilter(a, generateTimeSlots[n]) = weekSlotFilter(a, generateTimeSlots[n])
            /\ weekSlotFilter(a, generateTimeSlots[n]) = monthSlotFilter(a, generateTimeSlots[n])

\* A loaded appointment of 09:00 for 60 minutes: inside the 09:30 slot for all
\* three filters, outside the 10:00 slot that starts where it ends.
C26_Witness ==
    /\ ~loading
    /\ \E a \in Range(appointments) :
           /\ a.appointmentDate.kind = "valid"
           /\ a.appointmentDate.minute = 9 * 60
           /\ a.duration = 60
           /\ daySlotFilter(a, [hour |-> 9, minute |-> 30])
           /\ ~monthSlotFilter(a, [hour |-> 10, minute |-> 0])

\* C27: in day view the number of blocks drawn in the grid equals the count
\* shown in the header (rightPanelAppointments.length): every appointment of
\* the panel's list is drawn, whatever its start time and duration.
C27_DayBlocksMatchHeader ==
    (variant = "full" /\ viewMode = "day" /\ ~loading) =>
        /\ \A a \in Range(rightPanelAppointments) : dayBlocks(a) # {}
        /\ Cardinality(UNION {{<<a.id, n>> : n \in dayBlocks(a)} :
                                  a \in Range(rightPanelAppointments)})
               = Len(rightPanelAppointments)

(***************************************************************************)
(* The Book Appointment page as a state machine.                           *)
(***************************************************************************)
MaxBookingClicks == 7
MaxPatientPosts == 2
MaxAppointmentPosts == 1

CalendarVars ==
    <<variant, today, appointments, loading, error, searchTerm, selectedDate,
      currentMonth, viewMode, rightPanelMode, fetchPc, fetchCount, lastEvent>>

\* Patients the server holds before the page is opened.
ExistingPatients == {[id |-> <<"p", 0>>, firstName |-> <<"D">>, lastName |-> <<"S">>]}

\* Names typed into the patient box.
TypedNames == {<<" ">>, <<"S">>, <<"S", " ", "D">>, <<"d", " ", "s">>}
DateInputs == {"", "2024-03-18"}
TimePicks == {timeString(9, 0), timeString(16, 30)}
TypePicks == {"consultation"}

RECURSIVE seqToSet(_)
seqToSet(s) == IF s = <<>> THEN {} ELSE {Head(s)} \cup seqToSet(Tail(s))

\* response.data of GET /api/patients
serverPatients(b) == ExistingPatients \cup seqToSet(b.created)

removeAt(s, i) == SubSeq(s, 1, i - 1) \o SubSeq(s, i + 1, Len(s))

WithinPostBounds(b) ==
    /\ b.patientPosts <= MaxPatientPosts
    /\ b.appointmentPosts <= MaxAppointmentPosts

\* A click or an edit of the user.
BookingUserEvent(type, b) ==
    /\ budget > 0
    /\ budget' = budget - 1
    /\ WithinPostBounds(b)
    /\ booking' = [b EXCEPT !.last = [type |-> type]]
    /\ UNCHANGED CalendarVars

\* A request of the page settles.
BookingSettled(type, b) ==
    /\ WithinPostBounds(b)
    /\ booking' = [b EXCEPT !.last = [type |-> type]]
    /\ UNCHANGED <<CalendarVars, budget>>

\* onInputChange of the patient box: a non-empty text that is not the full name
\* of a listed patient.
BookingTypeName ==
    /\ booking.activeStep = 0
    /\ \E text \in TypedNames :
           /\ \A p \in booking.patients : toLowerCase(fullName(p)) # toLowerCase(text)
           /\ BookingUserEvent("typeName",
                  handlePatientSelect(booking, [kind |-> "string", text |-> text]))

\* onChange of the patient box with an option of the list.
BookingSelectPatient ==
    /\ booking.activeStep = 0
    /\ \E p \in booking.patients :
           BookingUserEvent("selectPatient",
               handlePatientSelect(booking, [kind |-> "patient", patient |-> p]))

\* onChange of the patient box with null (the box is cleared).
BookingClearPatient ==
    /\ booking.activeStep = 0
    /\ booking.formData.patientName # Empty
    /\ BookingUserEvent("clearPatient", handlePatientSelect(booking, [kind |-> "null"]))

\* onChange of the date field.
BookingSetDate ==
    /\ booking.activeStep = 1
    /\ \E d \in DateInputs :
           /\ d # booking.formData.appointmentDate
           /\ BookingUserEvent("setDate", handleFormChange(booking, "appointmentDate", d))

\* onChange of the time Select.
BookingSetTime ==
    /\ booking.activeStep = 1
    /\ \E t \in selectableTimes(booking) \cap TimePicks :
           /\ t # booking.formData.appointmentTime
           /\ BookingUserEvent("setTime", handleFormChange(booking, "appointmentTime", t))

\* onChange of the type Select.
BookingSetType ==
    /\ booking.activeStep = 2
    /\ \E t \in TypePicks :
           /\ t # booking.formData.appointmentType
           /\ BookingUserEvent("setType", handleFormChange(booking, "appointmentType", t))

\* The Next button: shown on steps 0 and 1.
BookingNext ==
    /\ booking.activeStep < 3
    /\ booking.activeStep # Len(steps) - 2
    /\ BookingUserEvent("next", handleNextStep(booking, Render(booking)))

\* The Back button: disabled on step 0.
BookingBack ==
    /\ booking.activeStep < 3
    /\ booking.activeStep # 0
    /\ BookingUserEvent("back", handleBack(booking))

\* The Book Appointment button: shown on step 2, disabled while submitting.
BookingBook ==
    /\ booking.activeStep = Len(steps) - 2
    /\ ~booking.submitting
    /\ BookingUserEvent("book", handleSubmit(booking, Render(booking)))

\* The Book Another Appointment button of the confirmation step.
BookingReset ==
    /\ booking.activeStep = 3
    /\ booking.success
    /\ BookingUserEvent("reset", handleReset(booking))

\* The mount effect's fetchPatients() resumes with the list.
PatientsResolve ==
    /\ booking.patientsPc = "inflight"
    /\ BookingSettled("patientsResolved",
           [booking EXCEPT !.patients = serverPatients(booking), !.patientsPc = "done"])

\* The mount effect's fetchPatients() resumes with a rejection, which it logs.
PatientsReject ==
    /\ booking.patientsPc = "inflight"
    /\ BookingSettled("patientsRejected", [booking EXCEPT !.patientsPc = "done"])

\* handleCreateNewPatient() resumes with the created patient: the form takes the
\* patient, then fetchPatients() is awaited.
CreatePatientResolve ==
    \E i \in 1..Len(booking.creating) :
        /\ booking.creating[i].pc = "posting"
        /\ LET call == booking.creating[i]
               newPatient == [id |-> <<"p", Len(booking.created) + 1>>,
                              firstName |-> call.firstName, lastName |-> call.lastName]
           IN  BookingSettled("patientCreated",
                   [booking EXCEPT
                       !.formData = [@ EXCEPT !.patientId = newPatient.id,
                                              !.patientName = fullName(newPatient)],
                       !.isNewPatient = FALSE,
                       !.newPatientName = Empty,
                       !.created = Append(@, newPatient),
                       !.creating = [@ EXCEPT ![i] = [@ EXCEPT !.pc = "refreshing"]]])

\* handleCreateNewPatient() resumes with a rejection: catch, then finally.
CreatePatientReject ==
    \E i \in 1..Len(booking.creating) :
        /\ booking.creating[i].pc = "posting"
        /\ BookingSettled("patientRejected",
               [booking EXCEPT !.error = "Failed to create patient. Please try again.",
                               !.loading = FALSE,
                               !.creating = removeAt(@, i)])

\* handleCreateNewPatient() resumes after fetchPatients(): it calls the handleNext
\* of its own render, then finally sets loading to false.
CreatePatientProceed ==
    \E i \in 1..Len(booking.creating) : \E listed \in BOOLEAN :
        /\ booking.creating[i].pc = "refreshing"
        /\ LET call == booking.creating[i]
               refreshed == [booking EXCEPT
                                !.patients = IF listed THEN serverPatients(booking) ELSE @,
                                !.creating = removeAt(@, i)]
               proceeded == handleNextStep(refreshed, call.render)
           IN  BookingSettled("patientProceed", [proceeded EXCEPT !.loading = FALSE])

\* handleSubmit() resumes with a response: setSuccess(true), setActiveStep(3),
\* then finally.
SubmitResolve ==
    /\ booking.submitPc = "posting"
    /\ BookingSettled("submitResolved",
           [booking EXCEPT !.success = TRUE, !.activeStep = 3, !.submitting = FALSE,
                           !.submitPc = "idle"])

\* handleSubmit() resumes with a rejection: catch, then finally.
SubmitReject ==
    /\ booking.submitPc = "posting"
    /\ BookingSettled("submitRejected",
           [booking EXCEPT !.error = "Failed to create appointment. Please try again.",
                           !.submitting = FALSE, !.submitPc = "idle"])

InitBooking ==
    /\ Mounted("full", LayoutToday, MaxBookingClicks)
    /\ booking = BookingMounted

NextBooking ==
    \/ BookingTypeName
    \/ BookingSelectPatient
    \/ BookingClearPatient
    \/ BookingSetDate
    \/ BookingSetTime
    \/ BookingSetType
    \/ BookingNext
    \/ BookingBack
    \/ BookingBook
    \/ BookingReset
    \/ PatientsResolve
    \/ PatientsReject
    \/ CreatePatientResolve
    \/ CreatePatientReject
    \/ CreatePatientProceed
    \/ SubmitResolve
    \/ SubmitReject

SpecBooking == InitBooking /\ [][NextBooking]_vars

(***************************************************************************)
(* Properties of the slot generators and of the Book Appointment page.     *)
(***************************************************************************)
\* The minute of the day a slot's "HH:MM" text stands for.
MinuteOfTimeString(t) ==
    CHOOSE m \in 0..(MinutesPerDay - 1) : timeString(m \div 60, m % 60) = t

GridStarts ==
    [i \in 1..Len(generateTimeSlots) |->
        generateTimeSlots[i].hour * 60 + generateTimeSlots[i].minute]

BookingStarts ==
    [i \in 1..Len(generateTimeSlotsBooking) |->
        MinuteOfTimeString(generateTimeSlotsBooking[i].time)]

\* Ascending starts, the first at startHour:00, each 30 minutes after the one
\* before it.
StepsFrom(starts, startHour) ==
    /\ Len(starts) > 0
    /\ starts[1] = startHour * 60
    /\ \A i \in 1..(Len(starts) - 1) : starts[i + 1] = starts[i] + 30

\* timeSlots(startHour, endHour, 30), half-open at endHour:00: every start is
\* before endHour:00 and the last slot ends there.
HalfOpenRule(starts, startHour, endHour) ==
    /\ StepsFrom(starts, startHour)
    /\ \A i \in 1..Len(starts) : starts[i] < endHour * 60
    /\ starts[Len(starts)] + 30 = endHour * 60

\* C22 as stated: the slots the day/week grid draws (8, 20) and the slots the
\* booking page offers at step 1 (9, 17) follow one rule: ascending 30-minute
\* steps from startHour:00, and no slot starts at or after endHour:00.
C22_OneSlotRule ==
    /\ (variant = "full" /\ viewMode \in {"day", "week"})
           => HalfOpenRule(GridStarts, GridStartHour, GridEndHour)
    /\ booking.activeStep = 1
           => HalfOpenRule(BookingStarts, BookingStartHour, BookingEndHour)

\* C22, amended: both generators step by 30 minutes from startHour:00, but they
\* end differently.  The booking generator is half-open at 17:00 (09:00 to
\* 16:30, 16 slots); the grid generator is closed at 20:00 (08:00 to 20:00, 25
\* slots): its last slot starts at endHour:00 and none starts after it.
C22_TwoSlotRules ==
    /\ booking.activeStep = 1
           => /\ HalfOpenRule(BookingStarts, BookingStartHour, BookingEndHour)
              /\ Len(BookingStarts) = 16
    /\ (variant = "full" /\ viewMode \in {"day", "week"})
           => /\ StepsFrom(GridStarts, GridStartHour)
              /\ GridStarts[Len(GridStarts)] = GridEndHour * 60
              /\ Len(GridStarts) = 25

\* The user has picked the last slot the booking page offers, 16:30.
C22_Witness ==
    /\ booking.activeStep = 1
    /\ booking.formData.appointmentTime = timeString(BookingEndHour - 1, 30)
    /\ viewMode = "day"

AllSlotTimes ==
    {generateTimeSlotsBooking[i].time : i \in 1..Len(generateTimeSlotsBooking)}

\* C23: every generated booking slot is marked available in every state; once a
\* date is chosen every slot can be picked, the times the server already holds
\* an appointment for included.
C23_SlotsAlwaysAvailable ==
    /\ \A i \in 1..Len(generateTimeSlotsBooking) : generateTimeSlotsBooking[i].available
    /\ (booking.activeStep = 1 /\ booking.formData.appointmentDate # "")
           => /\ selectableTimes(booking) = AllSlotTimes
              /\ \A e \in ExistingBookings :
                     e.date = booking.formData.appointmentDate
                         => e.time \in selectableTimes(booking)

\* A POST /api/appointments has been issued for a date and time the server
\* already holds an appointment for.
C23_Witness ==
    /\ booking.lastAppointment.sent
    /\ booking.lastAppointment.appointmentDate \in ExistingBookings

\* C28: when handleCreateNewPatient proceeds after the patient was created, no
\* further POST /api/patients is issued and the wizard stands on step 1.
C28_CreateOnceThenAdvance ==
    [][booking'.last.type = "patientProceed"
           => /\ booking'.patientPosts = booking.patientPosts
              /\ booking'.activeStep = 1]_vars

\* C29: a POST /api/appointments is issued only with a patient name, a date, a
\* time and a type that are all non-empty.
C29_SubmitNeedsAllFields ==
    booking.lastAppointment.sent
        => /\ booking.lastAppointment.patientName # Empty
           /\ booking.lastAppointment.appointmentDate.date # ""
           /\ booking.lastAppointment.appointmentDate.time # Empty
           /\ booking.lastAppointment.appointmentType # ""

====
